---- MODULE Spec2Model ----
(***************************************************************************)
(* Timesheet_App: the leave-request workflow (timesheet/views.py,          *)
(* timesheet/forms.py, timesheet/models.py) and the weekly timesheet       *)
(* save/submit handler, as a state machine over the relational rows.       *)
(*                                                                         *)
(* Dates are day numbers counted from Monday 2025-12-29, so that           *)
(* Weekday(d) = d % 7 is Python's date.weekday() and the year changes      *)
(* between day 2 (2025-12-31) and day 3 (2026-01-01).  Hours are           *)
(* fixed-point decimals, kept in hundredths of an hour (7.5 h = 750).      *)
(***************************************************************************)
EXTENDS Integers, Sequences, FiniteSets, TLC

VARIABLES
    inflight,       \* per worker: the request it is in the middle of handling
    leave_types,    \* LeaveType rows: code -> active
    manager,        \* User.manager: user -> user or NULL
    entitlements,   \* LeaveEntitlement rows
    requests,       \* LeaveRequest rows, the row with pk i at index i
    entries,        \* TimeEntry rows
    session,        \* alice's session: week -> draft cells of the timesheet
    lastOp          \* the last HTTP request handled and its response

vars == <<inflight, leave_types, manager, entitlements, requests, entries, session, lastOp>>

NULL == "NULL"

\* ------------------------------------------------------------------ bounds
MaxRequests == 2    \* LeaveRequest rows ever created
MaxWorkers == 2     \* requests handled at the same time

\* ------------------------------------------------------------ the calendar
Today == 1

Weekday(d) == d % 7

Year(d) == IF d < 3 THEN 2025 ELSE 2026

\* ------------------------------------------------------------- the workers
Workers == 1..MaxWorkers

Idle == [op |-> "idle"]

\* ------------------------------------------------------------- fixed rows
Users == {"alice", "bob", "carol"}

HasEmail(u) == u \in {"alice", "carol"}

LeaveTypeCodes == {"AL", "SL", "PL"}

\* the LeaveType table outside the user-creation runs: AL and SL active, PL
\* switched off
LeaveTypeRows == [code \in LeaveTypeCodes |-> code \in {"AL", "SL"}]

\* LeaveType.objects.filter(active=True)
ActiveLeaveTypes == {code \in DOMAIN leave_types : leave_types[code]}

STATUS_CHOICES == {"PENDING", "APPROVED", "REJECTED", "CANCELLED"}

\* rejection_reason texts, as sequences of characters
Reasons == {<<>>, <<" ">>, <<" ", "n", "o", " ">>}

RECURSIVE LStrip(_)
LStrip(s) == IF s # <<>> /\ Head(s) = " " THEN LStrip(Tail(s)) ELSE s

RECURSIVE RStrip(_)
RStrip(s) ==
    IF s # <<>> /\ s[Len(s)] = " " THEN RStrip(SubSeq(s, 1, Len(s) - 1)) ELSE s

\* the text taken as posted
strip_Nothing(s) == s

\* str.strip()
strip(s) == RStrip(LStrip(s))

\* ------------------------------------------------------------ User
is_manager_of(self, user) == manager[user] = self

\* ------------------------------------------------------------ LeaveRequest
\* the day count with Saturday taken for a working day
RECURSIVE BusinessDaysFrom_SixDayWeek(_, _)
BusinessDaysFrom_SixDayWeek(current_date, end_date) ==
    IF current_date > end_date THEN 0
    ELSE (IF Weekday(current_date) < 6 THEN 1 ELSE 0)
         + BusinessDaysFrom_SixDayWeek(current_date + 1, end_date)

RECURSIVE BusinessDaysFrom(_, _)
BusinessDaysFrom(current_date, end_date) ==
    IF current_date > end_date THEN 0
    ELSE (IF Weekday(current_date) < 5 THEN 1 ELSE 0)
         + BusinessDaysFrom(current_date + 1, end_date)

calculate_business_days(r) == BusinessDaysFrom(r.start_date, r.end_date)

\* LeaveRequest.save: total_days is filled in when it is falsy
LeaveRequest_save(r) ==
    IF r.total_days = 0
    THEN [r EXCEPT !.total_days = calculate_business_days(r)]
    ELSE r

send_status_notification(r) ==
    IF ~HasEmail(r.user) THEN <<>>
    ELSE IF r.status \in {"APPROVED", "REJECTED"}
         THEN <<[kind |-> "status", to |-> r.user, status |-> r.status]>>
         ELSE <<>>

send_confirmation_email(r) ==
    IF ~HasEmail(r.user) THEN <<>>
    ELSE <<[kind |-> "confirmation", to |-> r.user, status |-> r.status]>>

\* the manager's alert given up when the requester has no email address
send_manager_notification_NeedsRequesterEmail(r) ==
    IF ~HasEmail(r.user) THEN <<>>
    ELSE IF manager[r.user] = NULL THEN <<>>
    ELSE IF ~HasEmail(manager[r.user]) THEN <<>>
    ELSE <<[kind |-> "manager", to |-> manager[r.user], status |-> r.status]>>

send_manager_notification(r) ==
    IF manager[r.user] = NULL THEN <<>>
    ELSE IF ~HasEmail(manager[r.user]) THEN <<>>
    ELSE <<[kind |-> "manager", to |-> manager[r.user], status |-> r.status]>>

\* approve that notifies whatever the status was before
approve_NotifyAlways(r, approved_by_user) ==
    LET saved == LeaveRequest_save([r EXCEPT !.status = "APPROVED",
                                             !.approved_by = approved_by_user,
                                             !.approved_at = Today])
    IN  [row  |-> saved, mail |-> send_status_notification(saved)]

\* LeaveRequest.approve: the row as saved, and the mail sent after the save
approve(r, approved_by_user) ==
    LET saved == LeaveRequest_save([r EXCEPT !.status = "APPROVED",
                                             !.approved_by = approved_by_user,
                                             !.approved_at = Today])
    IN  [row  |-> saved,
         mail |-> IF r.status # "APPROVED"
                  THEN send_status_notification(saved) ELSE <<>>]

reject(r, rejected_by_user, reason) ==
    LET saved == LeaveRequest_save([r EXCEPT !.status = "REJECTED",
                                             !.approved_by = rejected_by_user,
                                             !.approved_at = Today,
                                             !.rejection_reason = reason])
    IN  [row  |-> saved,
         mail |-> IF r.status # "REJECTED"
                  THEN send_status_notification(saved) ELSE <<>>]

\* ------------------------------------------------------------ LeaveEntitlement
RequestIds == 1..Len(requests)

RECURSIVE SumTotalDays(_)
SumTotalDays(ids) ==
    IF ids = {} THEN 0
    ELSE LET i == CHOOSE x \in ids : TRUE
         IN  requests[i].total_days + SumTotalDays(ids \ {i})

\* used_days without the status filter
used_days_AnyStatus(e) ==
    SumTotalDays({i \in RequestIds :
        /\ requests[i].user = e.user
        /\ requests[i].leave_type = e.leave_type
        /\ Year(requests[i].start_date) = e.year})

used_days(e) ==
    SumTotalDays({i \in RequestIds :
        /\ requests[i].user = e.user
        /\ requests[i].leave_type = e.leave_type
        /\ Year(requests[i].start_date) = e.year
        /\ requests[i].status = "APPROVED"})

remaining_days(e) == e.allocated_days - used_days(e)

\* ------------------------------------------------------------ responses
\* a django.contrib.messages entry or a form error
Msg(level, text) == [level |-> level, text |-> text, amount |-> 0]

\* the request handled (view, user, parameters) and what it answered; `calls`
\* lists the date ranges calculate_business_days was invoked on, `grid` the
\* hours cells of the rendered timesheet rows, `totals` the totals shown
\* with them
Response(op, actor, req, code, msgs, mail) ==
    [op |-> op, actor |-> actor, req |-> req, code |-> code,
     msgs |-> msgs, mail |-> mail, calls |-> <<>>, grid |-> {},
     totals |-> [project_totals |-> <<>>, day_totals |-> <<>>, week_total |-> 0]]

\* ------------------------------------------------------------ approve_reject_leave
approve_reject_leave(actor, request_id, method, action, rejection_reason) ==
    LET req == [request_id |-> request_id, method |-> method, action |-> action,
                rejection_reason |-> rejection_reason]
        Reply(code, msgs, mail) ==
            Response("approve_reject_leave", actor, req, code, msgs, mail)
    IN
    IF request_id \notin RequestIds
    THEN \* get_object_or_404
         /\ lastOp' = Reply(404, <<>>, <<>>)
         /\ UNCHANGED <<inflight, leave_types, manager, entitlements, requests, entries, session>>
    ELSE LET leave_request == requests[request_id] IN
    IF ~is_manager_of(actor, leave_request.user)
    THEN \* the warning's f-string reads request.id, which HttpRequest lacks:
         \* AttributeError before the 403 is returned
         /\ lastOp' = Reply(500, <<>>, <<>>)
         /\ UNCHANGED <<inflight, leave_types, manager, entitlements, requests, entries, session>>
    ELSE IF method # "POST"
    THEN /\ lastOp' = Reply(405, <<>>, <<>>)
         /\ UNCHANGED <<inflight, leave_types, manager, entitlements, requests, entries, session>>
    ELSE IF action = "approve"
    THEN LET done == approve(leave_request, actor) IN
         /\ requests' = [requests EXCEPT ![request_id] = done.row]
         /\ lastOp' = Reply(200, <<Msg("success", "approved")>>, done.mail)
         /\ UNCHANGED <<inflight, leave_types, manager, entitlements, entries, session>>
    ELSE IF action = "reject"
    THEN LET reason == strip(rejection_reason) IN
         IF reason = <<>>
         THEN /\ lastOp' = Reply(400, <<Msg("error", "reason required")>>, <<>>)
              /\ UNCHANGED <<inflight, leave_types, manager, entitlements, requests, entries, session>>
         ELSE LET done == reject(leave_request, actor, reason) IN
              /\ requests' = [requests EXCEPT ![request_id] = done.row]
              /\ lastOp' = Reply(200, <<Msg("success", "rejected")>>, done.mail)
              /\ UNCHANGED <<inflight, leave_types, manager, entitlements, entries, session>>
    ELSE /\ lastOp' = Reply(400, <<>>, <<>>)
         /\ UNCHANGED <<inflight, leave_types, manager, entitlements, requests, entries, session>>

\* ------------------------------------------------------------ cancel_leave_request
\* cancel_leave_request without the PENDING test
cancel_leave_request_AnyStatus(actor, request_id) ==
    LET req == [request_id |-> request_id]
        Reply(code) ==
            Response("cancel_leave_request", actor, req, code, <<>>, <<>>)
    IN
    IF request_id \notin RequestIds \/ requests[request_id].user # actor
    THEN /\ lastOp' = Reply(404)
         /\ UNCHANGED <<inflight, leave_types, manager, entitlements, requests, entries, session>>
    ELSE /\ requests' = [requests EXCEPT ![request_id] =
                            LeaveRequest_save([@ EXCEPT !.status = "CANCELLED"])]
         /\ lastOp' = Reply(204)
         /\ UNCHANGED <<inflight, leave_types, manager, entitlements, entries, session>>

cancel_leave_request(actor, request_id) ==
    LET req == [request_id |-> request_id]
        Reply(code) ==
            Response("cancel_leave_request", actor, req, code, <<>>, <<>>)
    IN
    IF request_id \notin RequestIds \/ requests[request_id].user # actor
    THEN /\ lastOp' = Reply(404)
         /\ UNCHANGED <<inflight, leave_types, manager, entitlements, requests, entries, session>>
    ELSE IF requests[request_id].status # "PENDING"
    THEN /\ lastOp' = Reply(400)
         /\ UNCHANGED <<inflight, leave_types, manager, entitlements, requests, entries, session>>
    ELSE /\ requests' = [requests EXCEPT ![request_id] =
                            LeaveRequest_save([@ EXCEPT !.status = "CANCELLED"])]
         /\ lastOp' = Reply(204)
         /\ UNCHANGED <<inflight, leave_types, manager, entitlements, entries, session>>

\* ------------------------------------------------------------ LeaveRequestForm
\* LeaveRequestForm.clean without the test of start_date against end_date
LeaveRequestForm_clean_NoRangeCheck(user, leave_type, start_date, end_date) ==
    LET field_errors ==
            IF leave_type \in ActiveLeaveTypes THEN <<>>
            ELSE <<Msg("form", "invalid leave type")>>
        overlapping == {i \in RequestIds :
            /\ requests[i].user = user
            /\ requests[i].status \in {"PENDING", "APPROVED"}
            /\ requests[i].start_date <= end_date
            /\ requests[i].end_date >= start_date}
    IN  IF start_date < Today
        THEN field_errors \o <<Msg("form", "start before today")>>
        ELSE IF overlapping # {}
        THEN field_errors \o <<Msg("form", "overlapping request")>>
        ELSE field_errors

\* LeaveRequestForm.clean: the form's errors, empty when the form is valid
LeaveRequestForm_clean(user, leave_type, start_date, end_date) ==
    LET field_errors ==
            IF leave_type \in ActiveLeaveTypes THEN <<>>
            ELSE <<Msg("form", "invalid leave type")>>
        overlapping == {i \in RequestIds :
            /\ requests[i].user = user
            /\ requests[i].status \in {"PENDING", "APPROVED"}
            /\ requests[i].start_date <= end_date
            /\ requests[i].end_date >= start_date}
    IN  IF start_date > end_date
        THEN field_errors \o <<Msg("form", "start after end")>>
        ELSE IF start_date < Today
        THEN field_errors \o <<Msg("form", "start before today")>>
        ELSE IF overlapping # {}
        THEN field_errors \o <<Msg("form", "overlapping request")>>
        ELSE field_errors

\* LeaveRequestForm.save(commit=False): the unsaved instance
LeaveRequestForm_save(leave_type, start_date, end_date) ==
    [user |-> NULL, leave_type |-> leave_type,
     start_date |-> start_date, end_date |-> end_date,
     total_days |-> BusinessDaysFrom(start_date, end_date),
     status |-> "PENDING", approved_by |-> NULL, approved_at |-> NULL,
     rejection_reason |-> <<>>]

\* ------------------------------------------------------------ leave_request_form
\* the balance test against the allocation instead of what remains of it
insufficient_balance_Allocated(leave_request, entitlement) ==
    leave_request.total_days > entitlement.allocated_days

\* the balance test of the view
insufficient_balance(leave_request, entitlement) ==
    leave_request.total_days > remaining_days(entitlement)

\* leave_request.save(), the two notifications and the messages of the
\* redirect
save_and_notify(actor, req, leave_request, view_calls) ==
    LET saved == LeaveRequest_save(leave_request)
        call == [start_date |-> leave_request.start_date,
                 end_date |-> leave_request.end_date]
        save_calls ==
            IF leave_request.total_days = 0 THEN <<call>> ELSE <<>>
        confirmation == send_confirmation_email(saved)
        to_manager == send_manager_notification(saved)
        warning ==
            IF confirmation # <<>> /\ to_manager # <<>> THEN <<>>
            ELSE IF confirmation # <<>>
            THEN <<Msg("warning", "no manager notification")>>
            ELSE IF to_manager # <<>>
            THEN <<Msg("warning", "no confirmation")>>
            ELSE <<Msg("warning", "email unavailable")>>
    IN  [saved |-> saved,
         reply |-> [Response("leave_request_form", actor, req, 302,
                             warning \o <<Msg("success", "submitted"),
                                          Msg("info", "my requests")>>,
                             confirmation \o to_manager)
                        EXCEPT !.calls = view_calls \o save_calls]]

leave_request_form(actor, leave_type, start_date, end_date) ==
    LET req == [leave_type |-> leave_type, start_date |-> start_date,
                end_date |-> end_date]
        Reply(code, msgs, mail) ==
            Response("leave_request_form", actor, req, code, msgs, mail)
        errors == LeaveRequestForm_clean(actor, leave_type, start_date, end_date)
    IN
    IF errors # <<>>
    THEN /\ lastOp' = Reply(200, errors, <<>>)
         /\ UNCHANGED <<inflight, leave_types, manager, entitlements, requests, entries, session>>
    ELSE
    LET form_instance == LeaveRequestForm_save(leave_type, start_date, end_date)
        with_user == [form_instance EXCEPT !.user = actor]
        call == [start_date |-> start_date, end_date |-> end_date]
        \* LeaveRequestForm.clean computes total_days; the view computes it
        \* again when it is falsy
        view_calls ==
            <<call>> \o (IF with_user.total_days = 0 THEN <<call>> ELSE <<>>)
        leave_request ==
            IF with_user.total_days = 0
            THEN [with_user EXCEPT !.total_days = calculate_business_days(with_user)]
            ELSE with_user
        found == {e \in entitlements :
                    /\ e.user = leave_request.user
                    /\ e.leave_type = leave_request.leave_type
                    /\ e.year = Year(leave_request.start_date)}
    IN
    IF found = {}
    THEN /\ lastOp' = [Reply(200, <<Msg("error", "no entitlement")>>, <<>>)
                            EXCEPT !.calls = view_calls]
         /\ UNCHANGED <<inflight, leave_types, manager, entitlements, requests, entries, session>>
    ELSE LET entitlement == CHOOSE e \in found : TRUE IN
    IF insufficient_balance(leave_request, entitlement)
    THEN /\ lastOp' = [Reply(200, <<Msg("error", "insufficient balance")>>, <<>>)
                            EXCEPT !.calls = view_calls]
         /\ UNCHANGED <<inflight, leave_types, manager, entitlements, requests, entries, session>>
    ELSE LET done == save_and_notify(actor, req, leave_request, view_calls)
         IN
         /\ Len(requests) < MaxRequests
         /\ requests' = Append(requests, done.saved)
         /\ lastOp' = done.reply
         /\ UNCHANGED <<inflight, leave_types, manager, entitlements, entries, session>>

\* ------------------------------------------------------------ leave_request_form, step by step
\* A valid POST handled by worker w while another worker handles its own:
\* the form's and the view's checks read the rows stored at that moment, the
\* save comes later.
leave_request_form_check(w, actor, leave_type, start_date, end_date) ==
    LET errors == LeaveRequestForm_clean(actor, leave_type, start_date, end_date)
        form_instance == LeaveRequestForm_save(leave_type, start_date, end_date)
        leave_request == [form_instance EXCEPT !.user = actor]
        found == {e \in entitlements :
                    /\ e.user = leave_request.user
                    /\ e.leave_type = leave_request.leave_type
                    /\ e.year = Year(leave_request.start_date)}
        waiting == {v \in Workers : inflight[v].op = "leave_request_form"}
    IN  /\ inflight[w] = Idle
        /\ Len(requests) + Cardinality(waiting) < MaxRequests
        /\ errors = <<>>
        /\ leave_request.total_days # 0
        /\ found # {}
        /\ ~insufficient_balance(leave_request, CHOOSE e \in found : TRUE)
        /\ inflight' = [inflight EXCEPT ![w] =
                [op |-> "leave_request_form", actor |-> actor,
                 req |-> [leave_type |-> leave_type, start_date |-> start_date,
                          end_date |-> end_date],
                 leave_request |-> leave_request]]
        /\ UNCHANGED <<leave_types, manager, entitlements, requests, entries,
                       session, lastOp>>

\* leave_request.save() and what follows it
leave_request_form_save(w) ==
    /\ inflight[w].op = "leave_request_form"
    /\ LET t == inflight[w]
           call == [start_date |-> t.req.start_date, end_date |-> t.req.end_date]
           done == save_and_notify(t.actor, t.req, t.leave_request, <<call>>)
       IN  /\ requests' = Append(requests, done.saved)
           /\ lastOp' = done.reply
    /\ inflight' = [inflight EXCEPT ![w] = Idle]
    /\ UNCHANGED <<leave_types, manager, entitlements, entries, session>>

\* ------------------------------------------------------------ calculate_days_htmx
\* A date parameter of the query string is the sequence of dates that
\* strptime reads from it: none for the empty string, one for a well-formed
\* date, two for text that does not match "%Y-%m-%d".
strptime(text) ==
    IF Len(text) = 1 THEN [ok |-> TRUE, value |-> text[1]]
    ELSE [ok |-> FALSE, value |-> 0]

\* the template context: the number of days and whether it is shown
Calculation(days) == [level |-> "calculation", text |-> "days", amount |-> days]

calculate_days_htmx(actor, start_date, end_date, leave_type_id) ==
    LET req == [start_date |-> start_date, end_date |-> end_date,
                leave_type |-> leave_type_id]
        Reply(msgs) == Response("calculate_days_htmx", actor, req, 200, msgs, <<>>)
    IN
    /\ UNCHANGED <<inflight, leave_types, manager, entitlements, requests, entries, session>>
    /\ lastOp' =
        IF start_date = <<>> \/ end_date = <<>> THEN Reply(<<>>)
        ELSE IF ~strptime(start_date).ok \/ ~strptime(end_date).ok
        THEN Reply(<<Msg("error", "invalid date format")>>)
        ELSE LET start == strptime(start_date).value
                 end == strptime(end_date).value
             IN
             IF start > end
             THEN Reply(<<Msg("error", "start must be before end")>>)
             ELSE LET temp_request == [start_date |-> start, end_date |-> end]
                      days == calculate_business_days(temp_request)
                      found == {e \in entitlements :
                                    /\ e.user = actor
                                    /\ e.leave_type = leave_type_id
                                    /\ e.year = Year(start)}
                      balance ==
                        IF leave_type_id = "" THEN <<>>
                        ELSE IF leave_type_id \notin DOMAIN leave_types \/ found = {}
                        THEN <<Msg("warning", "no entitlement")>>
                        ELSE IF days > remaining_days(CHOOSE e \in found : TRUE)
                        THEN <<Msg("warning", "insufficient balance")>>
                        ELSE <<>>
                  IN  [Reply(<<Calculation(days)>> \o balance)
                            EXCEPT !.calls = <<temp_request>>]

\* ------------------------------------------------------------ Project
Projects == {1, 2, 3}

\* Project.active: project 3 is archived
ProjectActive(p) == p \in {1, 2}

\* Project.members
ProjectMembers(p) == IF p = 2 THEN {"alice", "bob"} ELSE {"alice"}

\* the lookup without its filters on members and active
ProjectFound_AnyProject(pid, user) == pid \in Projects

\* get_object_or_404(Project, pk=pid, members=request.user, active=True)
ProjectFound(pid, user) ==
    pid \in Projects /\ ProjectActive(pid) /\ user \in ProjectMembers(pid)

\* ------------------------------------------------------------ TimeEntry
DAILY_CAP == 750

EXPECTED_HOURS == 3750

LEAVE_DAY_HOURS == 750

HOURS_MAX_DIGITS == 4

RECURSIVE SumHours(_)
SumHours(rows) ==
    IF rows = {} THEN 0
    ELSE LET e == CHOOSE x \in rows : TRUE
         IN  e.hours + SumHours(rows \ {e})

is_leave_day(user, date) ==
    \E i \in RequestIds :
        /\ requests[i].user = user
        /\ requests[i].status = "APPROVED"
        /\ requests[i].start_date <= date
        /\ requests[i].end_date >= date

\* TimeEntry.clean that forgets the rows already stored for the day
TimeEntry_clean_OwnHours(db, row, self) ==
    IF is_leave_day(row.user, row.date) THEN TRUE
    ELSE ~(row.hours > DAILY_CAP)

\* TimeEntry.clean of `row` against the rows `db`; `self` holds the stored row
\* when the instance has a pk.  TRUE when no ValidationError is raised.
TimeEntry_clean(db, row, self) ==
    IF is_leave_day(row.user, row.date) THEN TRUE
    ELSE LET qs == {e \in db : e.user = row.user /\ e.date = row.date} \ self
         IN  ~(SumHours(qs) + row.hours > DAILY_CAP)

\* DecimalField(max_digits=4, decimal_places=2) on hours held in hundredths
hours_field_valid(hours) ==
    LET limit == 10000 IN hours < limit /\ hours > -limit

\* unique_together (user, project, date), checked by full_clean against the
\* rows other than the instance's own
validate_unique(db, row, self) ==
    ~\E e \in db \ self :
        e.user = row.user /\ e.project = row.project /\ e.date = row.date

\* TimeEntry.save that writes the instance as a new row next to its old one
TimeEntry_save_KeepsOld(db, row, self) ==
    IF hours_field_valid(row.hours) /\ TimeEntry_clean(db, row, self)
    THEN [ok |-> TRUE, db |-> db \cup {row}]
    ELSE [ok |-> FALSE, db |-> db]

\* TimeEntry.save: full_clean, then the row is written
TimeEntry_save(db, row, self) ==
    IF /\ hours_field_valid(row.hours)
       /\ validate_unique(db, row, self)
       /\ TimeEntry_clean(db, row, self)
    THEN [ok |-> TRUE, db |-> (db \ self) \cup {row}]
    ELSE [ok |-> FALSE, db |-> db]

\* update_or_create that leaves a row it finds as it is
update_or_create_InsertOnly(db, user, project, date, hours, submitted) ==
    LET found == {e \in db : e.user = user /\ e.project = project /\ e.date = date}
    IN  IF found = {}
        THEN TimeEntry_save(db, [user |-> user, project |-> project, date |-> date,
                                 hours |-> hours, submitted |-> submitted], {})
        ELSE [ok |-> TRUE, db |-> db]

\* TimeEntry.objects.update_or_create(user, project, date, defaults)
update_or_create(db, user, project, date, hours, submitted) ==
    LET found == {e \in db : e.user = user /\ e.project = project /\ e.date = date}
    IN  IF found = {}
        THEN TimeEntry_save(db, [user |-> user, project |-> project, date |-> date,
                                 hours |-> hours, submitted |-> submitted], {})
        ELSE LET obj == CHOOSE e \in found : TRUE
             IN  TimeEntry_save(db, [obj EXCEPT !.hours = hours,
                                                !.submitted = submitted], {obj})

\* ------------------------------------------------------------ weekly_timesheet
\* Decimal(val) for the posted strings
DecimalValue == [v \in {"7.5", "2"} |-> IF v = "7.5" THEN 750 ELSE 200]

Decimal(val) ==
    IF val \in DOMAIN DecimalValue
    THEN [ok |-> TRUE, value |-> DecimalValue[val]]
    ELSE [ok |-> FALSE, value |-> 0]

\* date.fromisocalendar(year, week_num, 1), weeks counted from ISO week 2026-W01
WeekStart(week_num) == 7 * week_num

WeekDays(week_num) == {WeekStart(week_num) + i : i \in 0..4}

\* the leave days of the week with requests of any status taken for approved
approved_leave_days_AnyStatus(user, week_num) ==
    {d \in WeekDays(week_num) :
        /\ Weekday(d) < 5
        /\ \E i \in RequestIds :
            /\ requests[i].user = user
            /\ requests[i].start_date <= d
            /\ requests[i].end_date >= d}

\* weekdays of the week covered by an APPROVED leave request of the user
approved_leave_days(user, week_num) ==
    {d \in WeekDays(week_num) : Weekday(d) < 5 /\ is_leave_day(user, d)}

\* raw[(pid, dt)] = hrs on a dict kept in insertion order
DictSet(raw, pid, dt, hrs) ==
    IF \E k \in 1..Len(raw) : raw[k].pid = pid /\ raw[k].dt = dt
    THEN [k \in 1..Len(raw) |->
            IF raw[k].pid = pid /\ raw[k].dt = dt
            THEN [raw[k] EXCEPT !.hrs = hrs] ELSE raw[k]]
    ELSE Append(raw, [pid |-> pid, dt |-> dt, hrs |-> hrs])

\* the parsing loop that drops a malformed value without recording an error
RECURSIVE ParsePost_SkipInvalid(_, _, _)
ParsePost_SkipInvalid(cells, days, acc) ==
    IF cells = <<>> THEN acc
    ELSE LET c == Head(cells)
             next ==
                IF c.val = "" THEN acc
                ELSE IF c.dt \notin days THEN acc
                ELSE IF ~Decimal(c.val).ok THEN acc
                ELSE LET hrs == Decimal(c.val).value
                         totals == [acc.daily_totals EXCEPT ![c.dt] = @ + hrs]
                     IN  [raw |-> DictSet(acc.raw, c.pid, c.dt, hrs),
                          daily_totals |-> totals,
                          errors |-> IF totals[c.dt] > DAILY_CAP
                                     THEN Append(acc.errors,
                                                 Msg("error", "cannot exceed 7.5"))
                                     ELSE acc.errors]
         IN  ParsePost_SkipInvalid(Tail(cells), days, next)

\* the parsing loop over request.POST.items()
RECURSIVE ParsePost(_, _, _)
ParsePost(cells, days, acc) ==
    IF cells = <<>> THEN acc
    ELSE LET c == Head(cells)
             next ==
                IF c.val = "" THEN acc
                ELSE IF c.dt \notin days THEN acc
                ELSE IF ~Decimal(c.val).ok
                THEN [acc EXCEPT !.errors = Append(@, Msg("error", "invalid hours"))]
                ELSE LET hrs == Decimal(c.val).value
                         totals == [acc.daily_totals EXCEPT ![c.dt] = @ + hrs]
                     IN  [raw |-> DictSet(acc.raw, c.pid, c.dt, hrs),
                          daily_totals |-> totals,
                          errors |-> IF totals[c.dt] > DAILY_CAP
                                     THEN Append(acc.errors,
                                                 Msg("error", "cannot exceed 7.5"))
                                     ELSE acc.errors]
         IN  ParsePost(Tail(cells), days, next)

RECURSIVE SumRaw(_)
SumRaw(raw) == IF raw = <<>> THEN 0 ELSE Head(raw).hrs + SumRaw(Tail(raw))

\* the loop inside transaction.atomic(): code 0 when every pair was written
RECURSIVE PersistRows(_, _, _, _)
PersistRows(raw, db, user, submitted) ==
    IF raw = <<>> THEN [code |-> 0, db |-> db]
    ELSE LET r == Head(raw) IN
         IF ~ProjectFound(r.pid, user) THEN [code |-> 404, db |-> db]
         ELSE LET w == update_or_create(db, user, r.pid, r.dt, r.hrs, submitted)
              IN  IF ~w.ok THEN [code |-> 500, db |-> db]
                  ELSE PersistRows(Tail(raw), w.db, user, submitted)

\* the block without a transaction: the rows written before the exception stay
transaction_atomic_NoRollback(before, result) == result.db

\* transaction.atomic(): an exception inside the block rolls the rows back
transaction_atomic(before, result) ==
    IF result.code = 0 THEN result.db ELSE before

\* the week's total without the credit for approved leave days
total_week_hours_Manual(raw, actor, week_num) == SumRaw(raw)

\* manual_hours + leave_hours of a submit
total_week_hours(raw, actor, week_num) ==
    LET manual_hours == SumRaw(raw)
        leave_hours ==
            Cardinality(approved_leave_days(actor, week_num)) * LEAVE_DAY_HOURS
    IN  manual_hours + leave_hours

\* request.session.get(session_key, {})
session_get(week_num) ==
    IF week_num \in DOMAIN session THEN session[week_num] ELSE {}

\* request.session.pop(session_key, None)
session_pop(week_num) ==
    [k \in DOMAIN session \ {week_num} |-> session[k]]

\* the draft cells whose value parses as a Decimal
DraftEntries(draft) ==
    {[pid |-> c.pid, dt |-> c.dt, hrs |-> Decimal(c.val).value] :
        c \in {x \in draft : Decimal(x.val).ok}}

\* the GET path of weekly_timesheet: the projects shown as rows and the
\* entries map, taken from the stored rows, or from the draft when no row is
\* stored for the week
week_context(actor, week_num) ==
    LET days == WeekDays(week_num)
        qs == {e \in entries : e.user = actor /\ e.date \in days}
        db_ids == {e.project : e \in qs}
        draft == session_get(week_num)
        draft_ids == IF db_ids = {} THEN {c.pid : c \in draft} ELSE {}
        all_ids == db_ids \cup draft_ids
        from_db == {[pid |-> e.project, dt |-> e.date, hrs |-> e.hours] : e \in qs}
    IN  [projects |-> {p \in all_ids : ProjectFound(p, actor)},
         entries  |-> IF from_db = {} THEN DraftEntries(draft) ELSE from_db]

\* the cells of the rows shown
render_week(actor, week_num) ==
    LET context == week_context(actor, week_num)
    IN  {c \in context.entries :
            c.pid \in context.projects /\ c.dt \in WeekDays(week_num)}

RECURSIVE SumCells(_)
SumCells(cells) ==
    IF cells = {} THEN 0
    ELSE LET c == CHOOSE x \in cells : TRUE IN c.hrs + SumCells(cells \ {c})

RECURSIVE SumValues(_, _)
SumValues(f, keys) ==
    IF keys = {} THEN 0
    ELSE LET k == CHOOSE x \in keys : TRUE IN f[k] + SumValues(f, keys \ {k})

\* project_totals, day_totals and week_total of the rendered grid
week_totals(actor, week_num) ==
    LET days == WeekDays(week_num)
        context == week_context(actor, week_num)
        project_totals ==
            [p \in context.projects |->
                SumCells({c \in context.entries : c.pid = p /\ c.dt \in days})]
        day_totals ==
            [d \in days |->
                LET manual_hours ==
                        SumCells({c \in context.entries :
                                    c.pid \in context.projects /\ c.dt = d})
                    leave_hours ==
                        IF d \in approved_leave_days(actor, week_num)
                        THEN LEAVE_DAY_HOURS ELSE 0
                IN  manual_hours + leave_hours]
    IN  [project_totals |-> project_totals,
         day_totals |-> day_totals,
         week_total |-> SumValues(day_totals, days)]

weekly_timesheet_GET(actor, week_num) ==
    /\ lastOp' = [Response("weekly_timesheet", actor,
                            [week_num |-> week_num, action |-> "GET", cells |-> <<>>],
                            200, <<>>, <<>>)
                    EXCEPT !.grid = render_week(actor, week_num),
                           !.totals = week_totals(actor, week_num)]
    /\ UNCHANGED <<inflight, leave_types, manager, entitlements, requests, entries, session>>

weekly_timesheet(actor, week_num, action, cells) ==
    LET req == [week_num |-> week_num, action |-> action, cells |-> cells]
        Reply(code, msgs) ==
            [Response("weekly_timesheet", actor, req, code, msgs, <<>>)
                EXCEPT !.grid = IF code = 200 THEN render_week(actor, week_num)
                                ELSE {},
                       !.totals = IF code = 200 THEN week_totals(actor, week_num)
                                  ELSE @]
        days == WeekDays(week_num)
        parsed == ParsePost(cells, days,
                            [raw |-> <<>>, daily_totals |-> [d \in days |-> 0],
                             errors |-> <<>>])
        raw == parsed.raw
        Commit(submitted, text) ==
            LET result == PersistRows(raw, entries, actor, submitted) IN
            /\ entries' = transaction_atomic(entries, result)
            /\ session' = IF result.code = 0 THEN session_pop(week_num) ELSE session
            /\ lastOp' = IF result.code = 0
                         THEN Reply(302, <<Msg("success", text)>>)
                         ELSE Reply(result.code, <<>>)
            /\ UNCHANGED <<inflight, leave_types, manager, entitlements, requests>>
    IN
    IF parsed.errors # <<>>
    THEN /\ lastOp' = Reply(200, parsed.errors)
         /\ UNCHANGED <<inflight, leave_types, manager, entitlements, requests, entries, session>>
    ELSE IF action = "save"
    THEN Commit(FALSE, "saved")
    ELSE IF action = "submit"
    THEN IF raw = <<>>
         THEN /\ lastOp' = Reply(302, <<Msg("error", "empty timesheet")>>)
              /\ UNCHANGED <<inflight, leave_types, manager, entitlements, requests, entries, session>>
         ELSE LET total == total_week_hours(raw, actor, week_num)
              IN  IF total < EXPECTED_HOURS
                  THEN /\ lastOp' = Reply(302,
                            <<[level |-> "error", text |-> "incomplete",
                               amount |-> EXPECTED_HOURS - total]>>)
                       /\ UNCHANGED <<inflight, leave_types, manager, entitlements, requests, entries, session>>
                  ELSE Commit(TRUE, "submitted")
    ELSE /\ lastOp' = Reply(200, <<>>)
         /\ UNCHANGED <<inflight, leave_types, manager, entitlements, requests, entries, session>>

\* ------------------------------------------------------------ weekly_timesheet by year and week
\* The ISO calendar of the years 2025 to 2027 in day numbers: 2026-W01 starts
\* on day 0 (Monday 2025-12-29), 2025 has 52 weeks and starts 364 days
\* earlier, 2026 has 53 weeks, 2027 starts on day 371 (Monday 2027-01-04)
IsoYears == 2025..2027

weeks_in_year(year) == IF year = 2026 THEN 53 ELSE 52

first_monday(year) ==
    CASE year = 2025 -> 0 - 364
      [] year = 2026 -> 0
      [] year = 2027 -> 371
      [] OTHER       -> 735

\* date.fromisocalendar(year, week, 1); ValueError for a week the year lacks
fromisocalendar(year, week) ==
    IF week \in 1..weeks_in_year(year)
    THEN [ok |-> TRUE, date |-> first_monday(year) + 7 * (week - 1)]
    ELSE [ok |-> FALSE, date |-> 0]

\* date.isocalendar()[:2]
isocalendar(d) ==
    LET year == CHOOSE y \in IsoYears :
                    first_monday(y) <= d /\ d < first_monday(y + 1)
    IN  [year |-> year, week |-> (d - first_monday(year)) \div 7 + 1]

\* prev_year, prev_week, next_year and next_week of the context
week_links(week_start) ==
    LET iso == isocalendar(week_start)
        iso_year == iso.year
        iso_week == iso.week
    IN  [prev_year |-> iso_year,
         prev_week |-> IF iso_week - 1 # 0 THEN iso_week - 1 ELSE 52,
         next_year |-> iso_year,
         next_week |-> iso_week + 1]

\* GET timesheet/weekly/<year>/<week_num>/: the week is rendered with its
\* links to the week before and the week after
weekly_with_date(actor, year, week_num) ==
    LET week_start == fromisocalendar(year, week_num)
        index == week_start.date \div 7
        shown == week_start.ok
    IN  /\ lastOp' =
            [op |-> "weekly_with_date", actor |-> actor,
             req |-> [year |-> year, week_num |-> week_num],
             code |-> IF shown THEN 200 ELSE 500,
             msgs |-> <<>>, mail |-> <<>>, calls |-> <<>>,
             grid |-> IF shown THEN render_week(actor, index) ELSE {},
             totals |-> IF shown THEN week_totals(actor, index)
                        ELSE [project_totals |-> <<>>, day_totals |-> <<>>,
                              week_total |-> 0],
             nav |-> IF shown THEN week_links(week_start.date)
                     ELSE [prev_year |-> 0, prev_week |-> 0,
                           next_year |-> 0, next_week |-> 0]]
        /\ UNCHANGED <<inflight, leave_types, manager, entitlements, requests,
                       entries, session>>

\* ------------------------------------------------------------ weekly_timesheet, step by step
\* A save or submit that reaches transaction.atomic(), handled by worker w
\* while another worker handles its own request.  The rows a transaction has
\* written stay its own until it commits; it reads the committed rows and
\* its own.
visible_rows(committed, written) ==
    {e \in committed :
        ~\E x \in written :
            x.user = e.user /\ x.project = e.project /\ x.date = e.date}
    \cup written

\* the view up to the transaction: parsing, and for a submit the empty and
\* the shortfall test, all passed
weekly_timesheet_begin(w, actor, week_num, action, cells) ==
    LET days == WeekDays(week_num)
        parsed == ParsePost(cells, days,
                            [raw |-> <<>>, daily_totals |-> [d \in days |-> 0],
                             errors |-> <<>>])
    IN  /\ inflight[w] = Idle
        /\ parsed.errors = <<>>
        /\ \/ action = "save"
           \/ /\ action = "submit"
              /\ parsed.raw # <<>>
              /\ ~(total_week_hours(parsed.raw, actor, week_num) < EXPECTED_HOURS)
        /\ inflight' = [inflight EXCEPT ![w] =
                [op |-> "weekly_timesheet", actor |-> actor,
                 req |-> [week_num |-> week_num, action |-> action, cells |-> cells],
                 raw |-> parsed.raw, written |-> {}]]
        /\ UNCHANGED <<leave_types, manager, entitlements, requests, entries,
                       session, lastOp>>

\* one turn of the loop inside transaction.atomic(): the project lookup and
\* update_or_create of the next pair; the write waits for a row another
\* transaction has written and not yet committed
weekly_timesheet_row(w) ==
    /\ inflight[w].op = "weekly_timesheet"
    /\ inflight[w].raw # <<>>
    /\ LET t == inflight[w]
           r == Head(t.raw)
           db == visible_rows(entries, t.written)
           Abort(code) ==
                /\ inflight' = [inflight EXCEPT ![w] = Idle]
                /\ lastOp' = Response("weekly_timesheet", t.actor, t.req, code,
                                      <<>>, <<>>)
       IN  /\ ~\E v \in Workers \ {w} :
                /\ inflight[v].op = "weekly_timesheet"
                /\ \E x \in inflight[v].written :
                    x.user = t.actor /\ x.project = r.pid /\ x.date = r.dt
           /\ IF ~ProjectFound(r.pid, t.actor) THEN Abort(404)
              ELSE LET write == update_or_create(db, t.actor, r.pid, r.dt, r.hrs,
                                                 t.req.action = "submit")
                   IN  IF ~write.ok THEN Abort(500)
                       ELSE /\ inflight' = [inflight EXCEPT ![w] =
                                    [t EXCEPT !.raw = Tail(t.raw),
                                              !.written = write.db \ entries]]
                            /\ UNCHANGED lastOp
    /\ UNCHANGED <<leave_types, manager, entitlements, requests, entries, session>>

\* the end of the block: the transaction commits, the draft is dropped and
\* the view redirects
weekly_timesheet_commit(w) ==
    /\ inflight[w].op = "weekly_timesheet"
    /\ inflight[w].raw = <<>>
    /\ LET t == inflight[w] IN
        /\ entries' = visible_rows(entries, t.written)
        /\ session' = session_pop(t.req.week_num)
        /\ lastOp' = Response("weekly_timesheet", t.actor, t.req, 302,
                              <<Msg("success", IF t.req.action = "submit"
                                               THEN "submitted" ELSE "saved")>>,
                              <<>>)
    /\ inflight' = [inflight EXCEPT ![w] = Idle]
    /\ UNCHANGED <<leave_types, manager, entitlements, requests>>

\* ------------------------------------------------------------ confirm_add_row
\* `project_id` is the posted text: <<>> when the field is missing, <<p>> for
\* the id p
confirm_add_row(actor, project_id, week_num) ==
    LET req == [project_id |-> project_id, week_num |-> week_num]
        Reply(code, grid) ==
            [Response("confirm_add_row", actor, req, code, <<>>, <<>>)
                EXCEPT !.grid = grid]
    IN
    /\ UNCHANGED <<inflight, leave_types, manager, entitlements, requests, entries, session>>
    /\ lastOp' =
        IF project_id = <<>> THEN Reply(400, {})
        ELSE IF ~ProjectFound(project_id[1], actor) THEN Reply(404, {})
        ELSE LET project == project_id[1]
                 days == WeekDays(week_num)
                 db_entries ==
                    {[pid |-> e.project, dt |-> e.date, hrs |-> e.hours] :
                        e \in {x \in entries : x.user = actor /\ x.date \in days}}
                 overlay == DraftEntries(session_get(week_num))
                 \* entries = db_entries.copy(); entries[(pid, dt)] = Decimal(val)
                 merged ==
                    {c \in db_entries :
                        ~\E o \in overlay : o.pid = c.pid /\ o.dt = c.dt}
                    \cup overlay
             IN  Reply(200, {c \in merged : c.pid = project /\ c.dt \in days})

\* ------------------------------------------------------------ the draft's writer
\* the session draft of a week is replaced by the cells being edited
store_draft(week_num, cells) ==
    /\ session' = [k \in DOMAIN session \cup {week_num} |->
                    IF k = week_num THEN cells ELSE session[k]]
    /\ lastOp' = Response("store_draft", "alice",
                          [week_num |-> week_num, cells |-> cells], 200, <<>>, <<>>)
    /\ UNCHANGED <<inflight, leave_types, manager, entitlements, requests, entries>>

\* ------------------------------------------------------------ the post_save signal
STANDARD_ENTITLEMENTS == [AL |-> 25, SL |-> 10, PL |-> 5]

\* LeaveEntitlement.objects.get_or_create(user, leave_type, year, defaults)
get_or_create(db, user, leave_type, year, allocated_days) ==
    IF \E e \in db : e.user = user /\ e.leave_type = leave_type /\ e.year = year
    THEN db
    ELSE db \cup {[user |-> user, leave_type |-> leave_type, year |-> year,
                   allocated_days |-> allocated_days]}

\* the loop over STANDARD_ENTITLEMENTS.items(); a code without an active
\* LeaveType raises DoesNotExist, which is passed over
RECURSIVE create_entitlements(_, _, _)
create_entitlements(db, instance, codes) ==
    IF codes = <<>> THEN db
    ELSE LET leave_code == Head(codes)
             next == IF leave_code \in ActiveLeaveTypes
                     THEN get_or_create(db, instance, leave_code, Year(Today),
                                        STANDARD_ENTITLEMENTS[leave_code])
                     ELSE db
         IN  create_entitlements(next, instance, Tail(codes))

\* the receiver run on every save of a user, new or not
create_user_leave_entitlements_EverySave(db, instance, created) ==
    create_entitlements(db, instance, <<"AL", "SL", "PL">>)

create_user_leave_entitlements(db, instance, created) ==
    IF created
    THEN create_entitlements(db, instance, <<"AL", "SL", "PL">>)
    ELSE db

\* User.save(): the row is written with its manager link, then post_save runs
User_save(instance, link) ==
    LET created == instance \notin DOMAIN manager
    IN  /\ manager' = [u \in DOMAIN manager \cup {instance} |->
                        IF u = instance THEN link ELSE manager[u]]
        /\ entitlements' = create_user_leave_entitlements(entitlements, instance, created)
        /\ lastOp' = Response("User_save", instance,
                              [manager |-> link, created |-> created],
                              200, <<>>, <<>>)
        /\ UNCHANGED <<inflight, leave_types, requests, entries, session>>

\* ------------------------------------------------------------ specification
Init ==
    /\ inflight = [w \in Workers |-> Idle]
    /\ leave_types = LeaveTypeRows
    /\ manager = [u \in Users |->
                    CASE u = "alice" -> "bob"
                      [] u = "bob"   -> "carol"
                      [] OTHER       -> NULL]
    /\ entitlements =
        {[user |-> "alice", leave_type |-> "AL", year |-> 2025, allocated_days |-> 2],
         [user |-> "alice", leave_type |-> "AL", year |-> 2026, allocated_days |-> 1]}
    /\ requests = <<>>
    /\ entries = {}
    /\ session = <<>>
    /\ lastOp = Response("init", NULL, <<>>, 0, <<>>, <<>>)

\* the date ranges a leave form names: today (2025-12-30) alone, the two days
\* across the new year, 2026-01-01 alone, a range that starts yesterday and
\* one that ends before it starts
LeaveRanges == {<<1, 1>>, <<2, 3>>, <<3, 3>>, <<0, 1>>, <<2, 1>>}

\* the leave forms posted: alice asks for annual leave over every range, and
\* alice and bob for today with each leave type
LeaveForms ==
    {<<"alice", "AL", range>> : range \in LeaveRanges}
    \cup {<<"alice", leave_type, <<1, 1>>>> : leave_type \in LeaveTypeCodes}
    \cup {<<"bob", "AL", <<1, 1>>>>}

CreateLeave ==
    \E f \in LeaveForms : leave_request_form(f[1], f[2], f[3][1], f[3][2])

\* the decisions posted from the dashboard
DecisionForms ==
    {<<"POST", "approve", <<>>>>} \cup {<<"POST", "reject", r>> : r \in Reasons}

ApproveReject ==
    \/ \E actor \in Users, request_id \in 1..MaxRequests, f \in DecisionForms :
            approve_reject_leave(actor, request_id, f[1], f[2], f[3])
    \/ \E f \in {<<"POST", "other">>, <<"GET", "">>} :
            approve_reject_leave("bob", 1, f[1], f[2], <<>>)

Cancel ==
    \E actor \in Users, request_id \in 1..MaxRequests :
        cancel_leave_request(actor, request_id)

NextLeave == CreateLeave \/ ApproveReject \/ Cancel

SpecLeave == Init /\ [][NextLeave]_vars

\* ---- the timesheet alone, with or without an approved leave day on Tuesday
ApprovedTuesday ==
    approve(LeaveRequest_save([LeaveRequestForm_save("AL", 1, 1)
                                  EXCEPT !.user = "alice"]), "bob").row

InitTime ==
    /\ inflight = [w \in Workers |-> Idle]
    /\ leave_types = LeaveTypeRows
    /\ manager = [u \in Users |->
                    CASE u = "alice" -> "bob"
                      [] u = "bob"   -> "carol"
                      [] OTHER       -> NULL]
    /\ entitlements =
        {[user |-> "alice", leave_type |-> "AL", year |-> 2025, allocated_days |-> 2],
         [user |-> "alice", leave_type |-> "AL", year |-> 2026, allocated_days |-> 1]}
    /\ requests \in {<<>>, <<ApprovedTuesday>>}
    /\ entries = {}
    /\ session = <<>>
    /\ lastOp = Response("init", NULL, <<>>, 0, <<>>, <<>>)

RECURSIVE RowCells(_, _, _)
RowCells(pid, dates, val) ==
    IF dates = <<>> THEN <<>>
    ELSE <<[pid |-> pid, dt |-> Head(dates), val |-> val]>>
         \o RowCells(pid, Tail(dates), val)

\* the hours fields of a POST: one grid row per project, the same value in each cell
RECURSIVE PostCells(_, _, _)
PostCells(pids, dates, val) ==
    IF pids = <<>> THEN <<>>
    ELSE RowCells(Head(pids), dates, val) \o PostCells(Tail(pids), dates, val)

PostedRows == {<<1>>, <<2>>, <<1, 2>>, <<1, 3>>}

PostedDates == {<<0, 1, 2, 3, 4>>, <<0, 2, 3, 4>>, <<1>>}

\* the POSTs of the grid: every row set, date set and value with save and
\* submit, and one each of an empty grid, a malformed value next to a valid
\* one, and no action
TimesheetForms ==
    {<<action, PostCells(pids, dates, val)>> :
        action \in {"save", "submit"}, pids \in PostedRows,
        dates \in PostedDates, val \in {"7.5", "2"}}
    \cup {<<"submit", <<>>>>,
          <<"save", PostCells(<<1>>, <<0>>, "2") \o PostCells(<<1>>, <<1>>, "abc")>>,
          <<"submit", PostCells(<<1, 2>>, <<1>>, "")>>,
          <<"", PostCells(<<1>>, <<1>>, "2")>>}

Timesheet ==
    \E f \in TimesheetForms : weekly_timesheet("alice", 0, f[1], f[2])

NextTime == Timesheet

SpecTime == InitTime /\ [][NextTime]_vars

\* ---- leave workflow and timesheet together, on Tuesday 2025-12-30
CreateLeaveTuesday == leave_request_form("alice", "AL", 1, 1)

DecideTuesday ==
    \E actor \in {"bob", "carol"}, request_id \in 1..MaxRequests,
       f \in {<<"approve", <<>>>>, <<"reject", <<" ", "n", "o", " ">>>>} :
        approve_reject_leave(actor, request_id, "POST", f[1], f[2])

CancelTuesday ==
    \E request_id \in 1..MaxRequests : cancel_leave_request("alice", request_id)

TimesheetTuesday ==
    \E action \in {"save", "submit"}, pids \in {<<1>>, <<2>>},
       dates \in {<<1>>, <<0, 2, 3, 4>>} :
        weekly_timesheet("alice", 0, action, PostCells(pids, dates, "7.5"))

Next == CreateLeaveTuesday \/ DecideTuesday \/ CancelTuesday \/ TimesheetTuesday

Spec == Init /\ [][Next]_vars

\* ---- the day calculation: ranges across the weekend of 2026-01-03, in the
\* form and in the live calculation
MaxDay == 8         \* last day number a query names

InitCalc ==
    /\ inflight = [w \in Workers |-> Idle]
    /\ leave_types = LeaveTypeRows
    /\ manager = [u \in Users |->
                    CASE u = "alice" -> "bob"
                      [] u = "bob"   -> "carol"
                      [] OTHER       -> NULL]
    /\ entitlements =
        {[user |-> "alice", leave_type |-> "AL", year |-> 2025, allocated_days |-> 6],
         [user |-> "alice", leave_type |-> "AL", year |-> 2026, allocated_days |-> 2]}
    /\ requests = <<>>
    /\ entries = {}
    /\ session = <<>>
    /\ lastOp = Response("init", NULL, <<>>, 0, <<>>, <<>>)

\* Tuesday alone, Friday to Monday, the weekend alone, Tuesday to the next
\* Tuesday, a Monday alone, a range that ends before it starts and one that
\* starts yesterday
CalcRanges ==
    {<<1, 1>>, <<4, 7>>, <<5, 6>>, <<1, 8>>, <<7, 7>>, <<7, 4>>, <<0, 4>>}

CreateLeaveCalc ==
    \E range \in CalcRanges : leave_request_form("alice", "AL", range[1], range[2])

DateTexts == {<<>>, <<0, 0>>} \cup {<<d>> : d \in 0..MaxDay}

CalculateDays ==
    \E start_date \in DateTexts, end_date \in DateTexts,
       leave_type_id \in {"", "AL", "PL"} :
        calculate_days_htmx("alice", start_date, end_date, leave_type_id)

NextCalc == CreateLeaveCalc \/ CalculateDays

SpecCalc == InitCalc /\ [][NextCalc]_vars

\* ---- the grid and its draft: alice edits, saves and reloads the first week
Drafts ==
    {{[pid |-> 2, dt |-> 1, val |-> "7.5"]},
     {[pid |-> 1, dt |-> 0, val |-> "7.5"], [pid |-> 1, dt |-> 1, val |-> "abc"]}}

StoreDraft == \E cells \in Drafts : store_draft(0, cells)

DraftForms ==
    {<<action, cells>> :
        action \in {"save", "submit"},
        cells \in {PostCells(<<1>>, <<0>>, "2"),
                   PostCells(<<1>>, <<0, 1, 2, 3, 4>>, "7.5"),
                   PostCells(<<1, 3>>, <<0>>, "2"),
                   PostCells(<<1>>, <<0>>, "abc")}}

TimesheetDraft ==
    \E f \in DraftForms : weekly_timesheet("alice", 0, f[1], f[2])

ViewWeek == weekly_timesheet_GET("alice", 0)

ConfirmAddRow ==
    \E project_id \in {<<>>, <<1>>, <<2>>, <<3>>} :
        confirm_add_row("alice", project_id, 0)

NextDraft == StoreDraft \/ TimesheetDraft \/ ViewWeek \/ ConfirmAddRow

SpecDraft == Init /\ [][NextDraft]_vars

\* ---- notifications: every user may ask for leave; bob has no email
\* address, carol has no manager, alice's manager bob has no email address
InitNotify ==
    /\ inflight = [w \in Workers |-> Idle]
    /\ leave_types = LeaveTypeRows
    /\ manager = [u \in Users |->
                    CASE u = "alice" -> "bob"
                      [] u = "bob"   -> "carol"
                      [] OTHER       -> NULL]
    /\ entitlements =
        {[user |-> u, leave_type |-> "AL", year |-> 2025, allocated_days |-> 2] :
            u \in Users}
    /\ requests = <<>>
    /\ entries = {}
    /\ session = <<>>
    /\ lastOp = Response("init", NULL, <<>>, 0, <<>>, <<>>)

CreateLeaveNotify ==
    \E user \in Users, day \in {1, 2} : leave_request_form(user, "AL", day, day)

DecideNotify ==
    \E actor \in Users, request_id \in 1..MaxRequests,
       f \in {<<"approve", <<>>>>, <<"reject", <<"n", "o">>>>} :
        approve_reject_leave(actor, request_id, "POST", f[1], f[2])

NextNotify == CreateLeaveNotify \/ DecideNotify

SpecNotify == InitNotify /\ [][NextNotify]_vars

\* ---- the grid's totals: alice asks for leave on Tuesday or on Wednesday
\* and Thursday, bob decides, alice saves two hours a day in one or two rows and
\* reloads the week
CreateLeaveGrid ==
    \E range \in {<<1, 1>>, <<2, 3>>} :
        leave_request_form("alice", "AL", range[1], range[2])

DecideGrid ==
    \E request_id \in 1..MaxRequests,
       f \in {<<"approve", <<>>>>, <<"reject", <<"n", "o">>>>} :
        approve_reject_leave("bob", request_id, "POST", f[1], f[2])

TimesheetGrid ==
    \E cells \in {PostCells(<<1, 2>>, <<0, 2>>, "2"), PostCells(<<2>>, <<1>>, "2")} :
        weekly_timesheet("alice", 0, "save", cells)

NextGrid == CreateLeaveGrid \/ DecideGrid \/ CancelTuesday \/ TimesheetGrid \/ ViewWeek

SpecGrid == Init /\ [][NextGrid]_vars

\* ---- user creation: carol exists with an annual allowance of two days;
\* alice and bob are created and every user is saved again, under every
\* LeaveType table over the three standard codes
LeaveTypeTables ==
    UNION {[codes -> BOOLEAN] : codes \in SUBSET LeaveTypeCodes}

InitSignal ==
    /\ inflight = [w \in Workers |-> Idle]
    /\ leave_types \in LeaveTypeTables
    /\ manager = [u \in {"carol"} |-> NULL]
    /\ entitlements =
        {[user |-> "carol", leave_type |-> "AL", year |-> 2025, allocated_days |-> 2]}
    /\ requests = <<>>
    /\ entries = {}
    /\ session = <<>>
    /\ lastOp = Response("init", NULL, <<>>, 0, <<>>, <<>>)

UserSave ==
    \E instance \in Users, link \in {NULL, "carol"} : User_save(instance, link)

NextSignal == UserSave

SpecSignal == InitSignal /\ [][NextSignal]_vars

\* ---- the manager link: alice reports to bob, to carol, to nobody or to
\* herself; she asks for Tuesday off and every user tries to decide
InitSelf ==
    /\ inflight = [w \in Workers |-> Idle]
    /\ leave_types = LeaveTypeRows
    /\ manager \in {m \in [Users -> Users \cup {NULL}] :
                        m["bob"] = "carol" /\ m["carol"] = NULL}
    /\ entitlements =
        {[user |-> "alice", leave_type |-> "AL", year |-> 2025, allocated_days |-> 2]}
    /\ requests = <<>>
    /\ entries = {}
    /\ session = <<>>
    /\ lastOp = Response("init", NULL, <<>>, 0, <<>>, <<>>)

DecideSelf ==
    \E actor \in Users, request_id \in 1..MaxRequests,
       f \in {<<"approve", <<>>>>, <<"reject", <<"n", "o">>>>} :
        approve_reject_leave(actor, request_id, "POST", f[1], f[2])

NextSelf == CreateLeaveTuesday \/ DecideSelf

SpecSelf == InitSelf /\ [][NextSelf]_vars

\* ---- two timesheet POSTs of alice at the same time: 7.5 hours on Tuesday
\* for project 1, for project 2, or 2 hours for each of the two
RaceForms ==
    {PostCells(<<1>>, <<1>>, "7.5"), PostCells(<<2>>, <<1>>, "7.5"),
     PostCells(<<1, 2>>, <<1>>, "2")}

TimesheetBegin ==
    \E w \in Workers, action \in {"save"}, cells \in RaceForms :
        weekly_timesheet_begin(w, "alice", 0, action, cells)

TimesheetRow == \E w \in Workers : weekly_timesheet_row(w)

TimesheetCommit == \E w \in Workers : weekly_timesheet_commit(w)

NextRace == TimesheetBegin \/ TimesheetRow \/ TimesheetCommit

SpecRace == Init /\ [][NextRace]_vars

\* ---- two leave forms of alice at the same time: Tuesday alone, Wednesday
\* alone, or the two days together
RaceRanges == {<<1, 1>>, <<2, 2>>, <<1, 2>>}

LeaveCheck ==
    \E w \in Workers, range \in RaceRanges :
        leave_request_form_check(w, "alice", "AL", range[1], range[2])

LeaveSave == \E w \in Workers : leave_request_form_save(w)

CreateLeaveRace ==
    \E range \in RaceRanges : leave_request_form("alice", "AL", range[1], range[2])

NextLeaveRace == LeaveCheck \/ LeaveSave \/ CreateLeaveRace \/ CancelTuesday

SpecLeaveRace == Init /\ [][NextLeaveRace]_vars

\* ---- what a POST leaves alone: alice has a pending leave request, a draft
\* row in the first week and one in the second; bob has a submitted row
PendingTuesday ==
    LeaveRequest_save([LeaveRequestForm_save("AL", 1, 1) EXCEPT !.user = "alice"])

InitFrame ==
    /\ inflight = [w \in Workers |-> Idle]
    /\ leave_types = LeaveTypeRows
    /\ manager = [u \in Users |->
                    CASE u = "alice" -> "bob"
                      [] u = "bob"   -> "carol"
                      [] OTHER       -> NULL]
    /\ entitlements =
        {[user |-> "alice", leave_type |-> "AL", year |-> 2025, allocated_days |-> 2],
         [user |-> "alice", leave_type |-> "AL", year |-> 2026, allocated_days |-> 1]}
    /\ requests = <<PendingTuesday>>
    /\ entries =
        {[user |-> "bob", project |-> 2, date |-> 0, hours |-> 750, submitted |-> TRUE],
         [user |-> "alice", project |-> 2, date |-> 0, hours |-> 200, submitted |-> FALSE],
         [user |-> "alice", project |-> 1, date |-> 7, hours |-> 200, submitted |-> FALSE]}
    /\ session = <<>>
    /\ lastOp = Response("init", NULL, <<>>, 0, <<>>, <<>>)

\* the POSTs: one cell; a cell of the week and one of the week after; an
\* empty cell over a stored row next to a new one; a row of the archived
\* project; a full week; one cell of the second week
FrameForms ==
    {<<week_num, action, cells>> :
        week_num \in {0, 1}, action \in {"save", "submit"},
        cells \in {PostCells(<<1>>, <<0>>, "2"),
                   PostCells(<<1>>, <<0, 7>>, "7.5"),
                   PostCells(<<2>>, <<0>>, "") \o PostCells(<<1>>, <<1>>, "2"),
                   PostCells(<<1, 3>>, <<0>>, "2"),
                   PostCells(<<2>>, <<0>>, "7.5")
                        \o PostCells(<<1>>, <<1, 2, 3, 4>>, "7.5"),
                   PostCells(<<2>>, <<7>>, "2")}}

TimesheetFrame ==
    \E f \in FrameForms : weekly_timesheet("alice", f[1], f[2], f[3])

NextFrame == TimesheetFrame

SpecFrame == InitFrame /\ [][NextFrame]_vars

\* ---- the weeks of three years: alice opens every week of 2025, 2026 and
\* 2027 by its address, and the weeks 53 and 54 the years may lack
MaxWeek == 54       \* last week number an address names

ViewDatedWeek ==
    \E year \in IsoYears, week_num \in 1..MaxWeek :
        weekly_with_date("alice", year, week_num)

NextNav == ViewDatedWeek

SpecNav == Init /\ [][NextNav]_vars

\* ============================================================ claims
\* ---- what the claims speak of, stated without the operators above
Intersect(a, b) == a.start_date <= b.end_date /\ b.start_date <= a.end_date

WeekdaysIn(start_date, end_date) ==
    Cardinality({d \in start_date..end_date : Weekday(d) < 5})

\* total_days of the APPROVED requests among the first n rows, for one
\* user, leave type and year of start
RECURSIVE ApprovedDays(_, _, _, _)
ApprovedDays(n, user, leave_type, year) ==
    IF n = 0 THEN 0
    ELSE ApprovedDays(n - 1, user, leave_type, year)
         + (IF /\ requests[n].user = user
               /\ requests[n].leave_type = leave_type
               /\ requests[n].status = "APPROVED"
               /\ Year(requests[n].start_date) = year
            THEN requests[n].total_days ELSE 0)

Balance(e) ==
    e.allocated_days - ApprovedDays(Len(requests), e.user, e.leave_type, e.year)

HasError(op) == \E k \in 1..Len(op.msgs) : op.msgs[k].level \in {"error", "form"}

\* C1: APPROVED, REJECTED and CANCELLED are terminal: once a request's status
\* has left PENDING, no approve, reject or cancel call changes it again.
C1_TerminalStatus ==
    [][\A i \in RequestIds :
          requests[i].status # "PENDING"
              => requests'[i].status = requests[i].status]_vars

\* C2: approve or reject by a user who is not the direct manager of the
\* request's owner is answered 403 and leaves the request unchanged.
C2_NonManagerDenied ==
    [][(/\ lastOp'.op = "approve_reject_leave"
        /\ lastOp'.req.action \in {"approve", "reject"}
        /\ lastOp'.req.request_id \in RequestIds
        /\ manager[requests[lastOp'.req.request_id].user] # lastOp'.actor)
            => (lastOp'.code = 403 /\ requests' = requests)]_vars

\* C3: no two distinct requests of one user with intersecting date ranges
\* are both PENDING or APPROVED.
C3_NoOverlap ==
    \A i, j \in RequestIds :
        (/\ i # j
         /\ requests[i].user = requests[j].user
         /\ requests[i].status \in {"PENDING", "APPROVED"}
         /\ requests[j].status \in {"PENDING", "APPROVED"})
            => ~Intersect(requests[i], requests[j])

\* ---- a timesheet POST as the claims speak of it
\* the (project, date) -> hours pairs of a POST: the non-empty cells of the
\* displayed week
Pairs(req) ==
    {[pid |-> req.cells[k].pid, dt |-> req.cells[k].dt,
      hrs |-> DecimalValue[req.cells[k].val]] :
        k \in {n \in 1..Len(req.cells) :
                /\ req.cells[n].val \in DOMAIN DecimalValue
                /\ req.cells[n].dt \in WeekDays(req.week_num)}}

RECURSIVE SumPairs(_)
SumPairs(pairs) ==
    IF pairs = {} THEN 0
    ELSE LET p == CHOOSE x \in pairs : TRUE IN p.hrs + SumPairs(pairs \ {p})

\* no malformed value and no day above 7.5 hours within the POST
ErrorFree(req) ==
    /\ \A k \in 1..Len(req.cells) : req.cells[k].val \in DOMAIN DecimalValue \cup {""}
    /\ \A d \in WeekDays(req.week_num) :
            SumPairs({p \in Pairs(req) : p.dt = d}) <= 750

DaySum(db, user, d) == SumHours({e \in db : e.user = user /\ e.date = d})

\* the day's hours if every pair of the POST were written over the stored rows
IntendedDaySum(db, user, pairs, d) ==
    SumHours({e \in db : /\ e.user = user
                         /\ e.date = d
                         /\ ~\E p \in pairs : p.pid = e.project /\ p.dt = d})
    + SumPairs({p \in pairs : p.dt = d})

Succeeded(op) ==
    op.code = 302 /\ \E k \in 1..Len(op.msgs) : op.msgs[k].level = "success"

\* every pair is stored once, with its hours and the flag, and no other row changed
AllStored(before, after, user, pairs, submitted) ==
    /\ \A p \in pairs :
        {e \in after : e.user = user /\ e.project = p.pid /\ e.date = p.dt}
            = {[user |-> user, project |-> p.pid, date |-> p.dt,
                hours |-> p.hrs, submitted |-> submitted]}
    /\ \A e \in before \cup after :
        (e.user # user \/ ~\E p \in pairs : p.pid = e.project /\ p.dt = e.date)
            => (e \in before /\ e \in after)

LeaveCredit(user, week_num) ==
    750 * Cardinality({d \in WeekDays(week_num) :
                        Weekday(d) < 5 /\ is_leave_day(user, d)})

\* C4: on a date without approved leave, after a successful save or submit
\* the user's hours of that date are at most 7.5; a write that would bring
\* them above 7.5 is rejected and no row is created or changed.
C4_DailyCap ==
    [][(lastOp'.op = "weekly_timesheet" /\ lastOp'.req.action \in {"save", "submit"}) =>
        LET user == lastOp'.actor
            pairs == Pairs(lastOp'.req)
            dates == {d \in {p.dt : p \in pairs} : ~is_leave_day(user, d)}
        IN  /\ Succeeded(lastOp') => \A d \in dates : DaySum(entries', user, d) <= 750
            /\ (\E d \in dates : IntendedDaySum(entries, user, pairs, d) > 750)
                    => (~Succeeded(lastOp') /\ entries' = entries)]_vars

\* a row was refused by the model's cap check because of rows stored for
\* another project
C4_Witness ==
    /\ lastOp.op = "weekly_timesheet"
    /\ lastOp.code = 500
    /\ ErrorFree(lastOp.req)
    /\ \E d \in WeekDays(0) :
        IntendedDaySum(entries, lastOp.actor, Pairs(lastOp.req), d) > 750

\* C5: for every user and date, the date is covered by an APPROVED leave
\* request of the user or the user's hours of that date are at most 7.5.
C5_CapOrLeave ==
    \A u \in Users : \A d \in {e.date : e \in entries} :
        is_leave_day(u, d) \/ DaySum(entries, u, d) <= 750

C7_AllOrNothing ==
    [][(lastOp'.op = "weekly_timesheet" /\ lastOp'.req.action \in {"save", "submit"}) =>
        LET user == lastOp'.actor
            pairs == Pairs(lastOp'.req)
        IN  /\ \/ ~Succeeded(lastOp') /\ entries' = entries
               \/ /\ Succeeded(lastOp')
                  /\ AllStored(entries, entries', user, pairs,
                               lastOp'.req.action = "submit")
            /\ lastOp'.code \in {404, 500} => entries' = entries
            /\ (\E p \in pairs : ~ProjectFound(p.pid, user)) => entries' = entries]_vars

\* the lookup of an archived project failed after the rows of project 1 had
\* been processed, and none of them is stored
C7_Witness ==
    /\ lastOp.op = "weekly_timesheet"
    /\ lastOp.code = 404
    /\ lastOp.req.cells[1].pid = 1
    /\ ProjectFound(1, lastOp.actor)
    /\ ~\E e \in entries : e.project = 1

\* C8: cancel_leave_request sets CANCELLED only for the owner's PENDING
\* request; any other call is refused and changes nothing; no mail is sent.
C8_CancelOwnPendingOnly ==
    [][lastOp'.op = "cancel_leave_request" =>
        LET rid == lastOp'.req.request_id
            allowed == /\ rid \in RequestIds
                       /\ requests[rid].user = lastOp'.actor
                       /\ requests[rid].status = "PENDING"
        IN  /\ lastOp'.mail = <<>>
            /\ allowed => /\ requests' = [requests EXCEPT ![rid].status = "CANCELLED"]
                          /\ lastOp'.code = 204
            /\ ~allowed => /\ requests' = requests
                           /\ lastOp'.code \in {400, 404}]_vars

\* an owner's cancel was refused for a decided request, after one was cancelled
C8_Witness ==
    /\ lastOp.op = "cancel_leave_request"
    /\ lastOp.code = 400
    /\ lastOp.req.request_id \in RequestIds
    /\ requests[lastOp.req.request_id].status = "APPROVED"
    /\ \E i \in RequestIds : requests[i].status = "CANCELLED"

\* C9: leave_request_form persists a request only if an entitlement exists
\* for (user, leave type, year of start) and total_days is at most its
\* remaining days; otherwise no row is created and an error is shown.
C9_CreationNeedsBalance ==
    [][lastOp'.op = "leave_request_form" =>
        LET req == lastOp'.req
            found == {e \in entitlements :
                        /\ e.user = lastOp'.actor
                        /\ e.leave_type = req.leave_type
                        /\ e.year = Year(req.start_date)}
            total == WeekdaysIn(req.start_date, req.end_date)
            created == Len(requests') = Len(requests) + 1
        IN  /\ created \/ requests' = requests
            /\ created => /\ found # {}
                          /\ \A e \in found : total <= Balance(e)
                          /\ requests'[Len(requests')].total_days = total
                          /\ SubSeq(requests', 1, Len(requests)) = requests
            /\ (found = {} \/ \E e \in found : total > Balance(e))
                    => (requests' = requests /\ HasError(lastOp'))]_vars

\* a form that passed validation was refused for its balance
C9_Witness ==
    /\ lastOp.op = "leave_request_form"
    /\ \E k \in 1..Len(lastOp.msgs) : lastOp.msgs[k].text = "insufficient balance"
    /\ \E i \in RequestIds : requests[i].status = "APPROVED"

\* C10: remaining_days of every entitlement is allocated_days minus the
\* total_days of the user's APPROVED requests of that type starting in that year.
C10_RemainingDays ==
    \A e \in entitlements : remaining_days(e) = Balance(e)

\* an approved request has used part of an entitlement while another request
\* of the same user and type is not APPROVED
C10_Witness ==
    \E e \in entitlements :
        /\ remaining_days(e) < e.allocated_days
        /\ \E i \in RequestIds :
            /\ requests[i].user = e.user
            /\ requests[i].leave_type = e.leave_type
            /\ Year(requests[i].start_date) = e.year
            /\ requests[i].status # "APPROVED"

\* C11: creating a PENDING request never changes the remaining_days of any
\* entitlement, and among create, approve, reject and cancel only an approval
\* changes a remaining_days.
C11_OnlyApprovalChangesBalance ==
    [][(\E e \in entitlements : remaining_days(e)' # remaining_days(e))
            => (/\ lastOp'.op = "approve_reject_leave"
                /\ lastOp'.req.action = "approve")]_vars

\* ---- a date parameter of the live calculation, as the claims speak of it
WellFormed(text) == Len(text) = 1

\* C12: a leave request with start_date > end_date or with start_date before
\* today is rejected at creation and not persisted; for start > end
\* calculate_business_days is not invoked, neither by the creation form nor
\* by calculate_days_htmx.
C12_BadRangeRejectedFirst ==
    [][/\ (/\ lastOp'.op = "leave_request_form"
           /\ \/ lastOp'.req.start_date > lastOp'.req.end_date
              \/ lastOp'.req.start_date < Today)
            => (/\ requests' = requests
                /\ HasError(lastOp'))
       /\ (/\ lastOp'.op = "leave_request_form"
           /\ lastOp'.req.start_date > lastOp'.req.end_date)
            => lastOp'.calls = <<>>
       /\ (/\ lastOp'.op = "calculate_days_htmx"
           /\ WellFormed(lastOp'.req.start_date)
           /\ WellFormed(lastOp'.req.end_date)
           /\ lastOp'.req.start_date[1] > lastOp'.req.end_date[1])
            => (/\ lastOp'.calls = <<>>
                /\ HasError(lastOp'))
       /\ \A k \in 1..Len(lastOp'.calls) :
            lastOp'.calls[k].start_date <= lastOp'.calls[k].end_date]_vars

\* a form whose range ends before it starts was refused while a request that
\* spans the weekend is stored
C12_Witness ==
    /\ lastOp.op = "leave_request_form"
    /\ lastOp.req.start_date > lastOp.req.end_date
    /\ HasError(lastOp)
    /\ lastOp.calls = <<>>
    /\ \E i \in RequestIds : requests[i].end_date - requests[i].start_date = 3

\* C13: for start <= end calculate_business_days is the number of dates of
\* [start, end] that fall on Monday-Friday; over weekdays only it is the
\* number of calendar days, for one weekday it is 1, and the total_days of a
\* request created through the form is this count for its range.
C13_BusinessDays ==
    [][/\ (/\ lastOp'.op = "calculate_days_htmx"
           /\ WellFormed(lastOp'.req.start_date)
           /\ WellFormed(lastOp'.req.end_date)
           /\ lastOp'.req.start_date[1] <= lastOp'.req.end_date[1])
            => LET start == lastOp'.req.start_date[1]
                   end == lastOp'.req.end_date[1]
                   days == lastOp'.msgs[1].amount
               IN  /\ lastOp'.msgs[1].level = "calculation"
                   /\ days = WeekdaysIn(start, end)
                   /\ (\A d \in start..end : Weekday(d) < 5) => days = end - start + 1
                   /\ (start = end /\ Weekday(start) < 5) => days = 1
       /\ (/\ lastOp'.op = "leave_request_form"
           /\ Len(requests') = Len(requests) + 1)
            => LET new == requests'[Len(requests')]
               IN  /\ new.start_date = lastOp'.req.start_date
                   /\ new.end_date = lastOp'.req.end_date
                   /\ new.total_days = WeekdaysIn(new.start_date, new.end_date)]_vars

\* the calculation was asked for Friday to Monday (2 days) while a request
\* from Tuesday to the next Tuesday is stored with 6 days
C13_Witness ==
    /\ lastOp.op = "calculate_days_htmx"
    /\ lastOp.req.start_date = <<4>>
    /\ lastOp.req.end_date = <<7>>
    /\ lastOp.msgs[1].amount = 2
    /\ \E i \in RequestIds :
        /\ requests[i].start_date = 1
        /\ requests[i].end_date = 8
        /\ requests[i].total_days = 6

\* C17: when a TimeEntry row of the user exists for the week, every grid or
\* row rendered for that week (weekly_timesheet, confirm_add_row) shows the
\* hours of the stored rows only, no draft value on top of them; a successful
\* save or submit removes the week's draft from the session.
C17_DraftIsFallbackOnly ==
    [][/\ (/\ lastOp'.op \in {"weekly_timesheet", "confirm_add_row"}
           /\ lastOp'.code = 200
           /\ \E e \in entries' :
                e.user = lastOp'.actor /\ e.date \in WeekDays(lastOp'.req.week_num))
            => \A c \in lastOp'.grid :
                \E e \in entries' :
                    /\ e.user = lastOp'.actor
                    /\ e.project = c.pid
                    /\ e.date = c.dt
                    /\ e.hours = c.hrs
       /\ (lastOp'.op = "weekly_timesheet" /\ Succeeded(lastOp'))
            => lastOp'.req.week_num \notin DOMAIN session']_vars

\* C14: on a date covered by an APPROVED leave request of the user the cap
\* does not block manual entries: a save or submit (complete, with projects
\* of the user) whose hours bring only leave days above 7.5, within the POST
\* or together with the rows stored for other projects, is accepted.
C14_LeaveDayBypassesCap ==
    [][(/\ lastOp'.op = "weekly_timesheet"
        /\ lastOp'.req.action \in {"save", "submit"}
        /\ \A k \in 1..Len(lastOp'.req.cells) :
                lastOp'.req.cells[k].val \in DOMAIN DecimalValue \cup {""}) =>
        LET user == lastOp'.actor
            pairs == Pairs(lastOp'.req)
            over == {d \in WeekDays(lastOp'.req.week_num) :
                        \/ SumPairs({p \in pairs : p.dt = d}) > 750
                        \/ IntendedDaySum(entries, user, pairs, d) > 750}
            total == SumPairs(pairs) + LeaveCredit(user, lastOp'.req.week_num)
        IN  (/\ over # {}
             /\ \A d \in over : is_leave_day(user, d)
             /\ \A p \in pairs : ProjectFound(p.pid, user)
             /\ lastOp'.req.action = "submit" => total >= 3750)
                => (/\ Succeeded(lastOp')
                    /\ AllStored(entries, entries', user, pairs,
                                 lastOp'.req.action = "submit"))]_vars

C16_InvalidPostWritesNothing ==
    [][lastOp'.op = "weekly_timesheet" =>
        LET user == lastOp'.actor
            pairs == Pairs(lastOp'.req)
            total == SumPairs(pairs) + LeaveCredit(user, lastOp'.req.week_num)
            invalid ==
                \/ ~ErrorFree(lastOp'.req)
                \/ /\ lastOp'.req.action = "submit"
                   /\ (pairs = {} \/ total < 3750)
        IN  invalid => (/\ entries' = entries
                        /\ ~Succeeded(lastOp')
                        /\ \E k \in 1..Len(lastOp'.msgs) :
                                lastOp'.msgs[k].level = "error")]_vars

\* a POST with a valid cell and a malformed one was refused while rows are
\* stored, and its valid cell was not written
C16_Witness ==
    /\ lastOp.op = "weekly_timesheet"
    /\ lastOp.code = 200
    /\ \E k \in 1..Len(lastOp.msgs) : lastOp.msgs[k].level = "error"
    /\ \E k \in 1..Len(lastOp.req.cells) : lastOp.req.cells[k].val = "abc"
    /\ Pairs(lastOp.req) = {[pid |-> 1, dt |-> 0, hrs |-> 200]}
    /\ entries # {}
    /\ ~\E e \in entries : e.project = 1 /\ e.date = 0

\* ---- a decision posted by the owner's direct manager
ByManager(op) ==
    /\ op.op = "approve_reject_leave"
    /\ op.req.method = "POST"
    /\ op.req.request_id \in RequestIds
    /\ manager[requests[op.req.request_id].user] = op.actor

\* C18: approve sets status=APPROVED, approved_by=the acting manager and
\* approved_at, saves, and then sends the status notification once, and only
\* when the status before the call was not APPROVED; the notification tells
\* of the saved row.
C18_ApproveNotifiesOnce ==
    [][(ByManager(lastOp') /\ lastOp'.req.action = "approve") =>
        LET rid == lastOp'.req.request_id
            old == requests[rid]
        IN  /\ lastOp'.code = 200
            /\ requests' = [requests EXCEPT ![rid] =
                                [old EXCEPT !.status = "APPROVED",
                                            !.approved_by = lastOp'.actor,
                                            !.approved_at = Today]]
            /\ lastOp'.mail =
                IF old.status # "APPROVED" /\ HasEmail(old.user)
                THEN <<[kind |-> "status", to |-> old.user, status |-> "APPROVED"]>>
                ELSE <<>>]_vars

\* an APPROVED request was approved again and no notification went out
C18_Witness ==
    /\ lastOp.op = "approve_reject_leave"
    /\ lastOp.req.action = "approve"
    /\ lastOp.code = 200
    /\ lastOp.mail = <<>>
    /\ requests[lastOp.req.request_id].status = "APPROVED"
    /\ HasEmail(requests[lastOp.req.request_id].user)

\* ---- a reason as the claims speak of it
Blank(text) == \A k \in 1..Len(text) : text[k] = " "

\* the text between its first and its last character that is not a space
Trimmed(text) ==
    LET inked == {k \in 1..Len(text) : text[k] # " "}
    IN  IF inked = {} THEN <<>>
        ELSE SubSeq(text,
                    CHOOSE k \in inked : \A j \in inked : k <= j,
                    CHOOSE k \in inked : \A j \in inked : k >= j)

\* C19 as claimed: a reject with an empty or whitespace-only reason is
\* refused (400) and changes nothing; with any other reason the request
\* becomes REJECTED with rejection_reason equal to the given reason and
\* approved_by/approved_at recorded; every REJECTED request has a non-empty
\* rejection_reason.
C19_RejectStoresReason ==
    [][(ByManager(lastOp') /\ lastOp'.req.action = "reject") =>
        LET rid == lastOp'.req.request_id
            given == lastOp'.req.rejection_reason
        IN  /\ Blank(given) => (lastOp'.code = 400 /\ requests' = requests)
            /\ ~Blank(given) =>
                /\ requests' = [requests EXCEPT ![rid] =
                                    [@ EXCEPT !.status = "REJECTED",
                                              !.approved_by = lastOp'.actor,
                                              !.approved_at = Today,
                                              !.rejection_reason = given]]
            /\ \A i \in 1..Len(requests') :
                requests'[i].status = "REJECTED" => requests'[i].rejection_reason # <<>>]_vars

\* C19 amended: the rejection_reason stored is the given reason without its
\* leading and trailing whitespace.
C19_RejectStoresTrimmedReason ==
    [][(ByManager(lastOp') /\ lastOp'.req.action = "reject") =>
        LET rid == lastOp'.req.request_id
            given == lastOp'.req.rejection_reason
        IN  /\ Blank(given) => (lastOp'.code = 400 /\ requests' = requests)
            /\ ~Blank(given) =>
                /\ lastOp'.code = 200
                /\ requests' = [requests EXCEPT ![rid] =
                                    [@ EXCEPT !.status = "REJECTED",
                                              !.approved_by = lastOp'.actor,
                                              !.approved_at = Today,
                                              !.rejection_reason = Trimmed(given)]]
            /\ \A i \in 1..Len(requests') :
                requests'[i].status = "REJECTED" => requests'[i].rejection_reason # <<>>]_vars

\* a request was rejected with the reason " no " and "no" is stored
C19_Witness ==
    /\ lastOp.op = "approve_reject_leave"
    /\ lastOp.req.action = "reject"
    /\ lastOp.code = 200
    /\ lastOp.req.rejection_reason = <<" ", "n", "o", " ">>
    /\ requests[lastOp.req.request_id].status = "REJECTED"
    /\ requests[lastOp.req.request_id].rejection_reason = <<"n", "o">>

Rendered(op) == op.op = "weekly_timesheet" /\ op.code = 200

\* a Monday-Friday date covered by an APPROVED leave request of the user
CreditedDay(rows, user, d) ==
    /\ Weekday(d) < 5
    /\ \E i \in 1..Len(rows) :
        /\ rows[i].user = user
        /\ rows[i].status = "APPROVED"
        /\ d \in rows[i].start_date..rows[i].end_date

RECURSIVE SumOver(_, _)
SumOver(f, keys) ==
    IF keys = {} THEN 0
    ELSE LET k == CHOOSE x \in keys : TRUE IN f[k] + SumOver(f, keys \ {k})

\* C21: in the rendered grid each row total is the sum of the row's hours,
\* each day total is the sum of the displayed hours of the day plus 7.5
\* exactly on the weekdays an APPROVED leave request of the user covers, and
\* the week total is the sum of the day totals, which is the sum of the row
\* totals plus 7.5 for each such day.
C21_GridTotals ==
    [][Rendered(lastOp') =>
        LET op == lastOp'
            days == WeekDays(op.req.week_num)
            rows == DOMAIN op.totals.project_totals
            credited == {d \in days : CreditedDay(requests', op.actor, d)}
        IN  /\ rows = {c.pid : c \in op.grid}
            /\ \A p \in rows :
                op.totals.project_totals[p] = SumPairs({c \in op.grid : c.pid = p})
            /\ \A d \in days :
                op.totals.day_totals[d] =
                    SumPairs({c \in op.grid : c.dt = d})
                    + (IF d \in credited THEN 750 ELSE 0)
            /\ op.totals.week_total = SumOver(op.totals.day_totals, days)
            /\ op.totals.week_total =
                SumOver(op.totals.project_totals, rows)
                + 750 * Cardinality(credited)]_vars

\* a reload that shows two rows with hours on one day, a credited Tuesday and
\* a request that is not APPROVED over Wednesday and Thursday
C21_Witness ==
    /\ Rendered(lastOp)
    /\ \E c1, c2 \in lastOp.grid : c1.pid # c2.pid /\ c1.dt = c2.dt
    /\ lastOp.totals.day_totals[1] = 750
    /\ lastOp.totals.day_totals[2] = 400
    /\ \E i \in RequestIds :
        /\ requests[i].user = "alice"
        /\ requests[i].status # "APPROVED"
        /\ requests[i].start_date = 2

\* ---- the stored rows as the claims speak of them
RowsOf(db, user, project, date) ==
    {e \in db : e.user = user /\ e.project = project /\ e.date = date}

\* C22: there is never more than one TimeEntry row per (user, project, date);
\* writing a new instance for a (user, project, date) that has a row fails
\* and stores nothing; a save or submit of a pair that already has a row
\* updates that row, and the number of rows grows only by the pairs that had
\* none.
C22_OneRowPerCell ==
    [][/\ \A e \in entries' :
            Cardinality(RowsOf(entries', e.user, e.project, e.date)) = 1
       /\ \A e \in entries :
            LET write == TimeEntry_save(entries, [e EXCEPT !.hours = 0], {})
            IN  ~write.ok /\ write.db = entries
       /\ (/\ lastOp'.op = "weekly_timesheet"
           /\ lastOp'.req.action \in {"save", "submit"}
           /\ Succeeded(lastOp'))
            => LET user == lastOp'.actor
                   pairs == Pairs(lastOp'.req)
                   fresh == {p \in pairs : RowsOf(entries, user, p.pid, p.dt) = {}}
               IN  /\ \A p \in pairs :
                        {e.hours : e \in RowsOf(entries', user, p.pid, p.dt)} = {p.hrs}
                   /\ Cardinality(entries') = Cardinality(entries) + Cardinality(fresh)]_vars

\* a save of 2 hours for a Tuesday that held 7.5 hours: still one row for the
\* cell, now with 2 hours
C22_Witness ==
    /\ lastOp.op = "weekly_timesheet"
    /\ lastOp.req.action = "save"
    /\ Succeeded(lastOp)
    /\ Pairs(lastOp.req) = {[pid |-> 2, dt |-> 1, hrs |-> 200]}
    /\ \E e \in entries : e.project = 2 /\ e.date = 0 /\ e.hours = 750
    /\ RowsOf(entries, "alice", 2, 1)
            = {[user |-> "alice", project |-> 2, date |-> 1,
                hours |-> 200, submitted |-> FALSE]}

\* ---- the entitlements as the claims speak of them
EntitlementsOf(db, user, leave_type, year) ==
    {e \in db : e.user = user /\ e.leave_type = leave_type /\ e.year = year}

StandardDays(code) ==
    CASE code = "AL" -> 25 [] code = "SL" -> 10 [] code = "PL" -> 5

\* C23: creating a user leaves, for each of AL, SL and PL whose LeaveType
\* exists and is active, exactly one entitlement for (user, type, current
\* year) with 25, 10 and 5 days; a missing or inactive type is skipped
\* without error; saving an existing user changes no entitlement; and there
\* is never more than one entitlement per (user, leave type, year).
C23_EntitlementsOnCreation ==
    [][/\ \A e \in entitlements' :
            EntitlementsOf(entitlements', e.user, e.leave_type, e.year) = {e}
       /\ lastOp'.op = "User_save" =>
            LET user == lastOp'.actor
                granted == {code \in {"AL", "SL", "PL"} :
                                code \in DOMAIN leave_types /\ leave_types[code]}
            IN  /\ lastOp'.code = 200
                /\ IF user \in DOMAIN manager
                   THEN entitlements' = entitlements
                   ELSE entitlements' = entitlements \cup
                            {[user |-> user, leave_type |-> code, year |-> 2025,
                              allocated_days |-> StandardDays(code)] :
                                code \in granted}]_vars

\* bob was created while AL was active, SL inactive and PL missing: he holds
\* the 25 days of AL and nothing else
C23_Witness ==
    /\ lastOp.op = "User_save"
    /\ lastOp.actor = "bob"
    /\ lastOp.req.created
    /\ DOMAIN leave_types = {"AL", "SL"}
    /\ leave_types["AL"] /\ ~leave_types["SL"]
    /\ {e \in entitlements : e.user = "bob"}
            = {[user |-> "bob", leave_type |-> "AL", year |-> 2025,
                allocated_days |-> 25]}

\* C24: the remaining days of every entitlement are never negative: the
\* total_days of the APPROVED requests of a user, leave type and year of
\* start never exceed allocated_days, also when several PENDING requests
\* that each passed the balance check are all approved.
C24_BalanceNeverNegative ==
    \A e \in entitlements : Balance(e) >= 0 /\ remaining_days(e) >= 0

\* C25: nobody decides their own leave request: a request that is APPROVED
\* or REJECTED was decided by a user other than its owner, whatever the
\* manager links are.
C25_NoSelfApproval ==
    \A i \in RequestIds :
        requests[i].status \in {"APPROVED", "REJECTED"}
            => requests[i].approved_by # requests[i].user

\* C26: when two saves or submits of one user for one week are handled at
\* the same time, each in its own transaction, the committed rows still keep
\* to the cap: on a date without approved leave the user's hours sum to at
\* most 7.5, also when the two requests write different projects.
C26_ConcurrentCap ==
    \A u \in Users, d \in WeekDays(0) :
        ~CreditedDay(requests, u, d)
            => SumPairs({[pid |-> e.project, dt |-> e.date, hrs |-> e.hours] :
                            e \in {x \in entries : x.user = u /\ x.date = d}}) <= 750

\* C27: when two leave forms of one user with intersecting date ranges are
\* handled at the same time, both checked before either is saved, at most
\* one of them is stored: no two PENDING or APPROVED requests of a user
\* intersect.
C27_ConcurrentNoOverlap ==
    \A i \in RequestIds : \A j \in RequestIds \ {i} :
        (/\ requests[i].user = requests[j].user
         /\ requests[i].status \in {"PENDING", "APPROVED"}
         /\ requests[j].status \in {"PENDING", "APPROVED"})
            => \/ requests[i].end_date < requests[j].start_date
               \/ requests[j].end_date < requests[i].start_date

\* C28: a successful save or submit of user u for week W creates or updates
\* only rows (u, project, date) of the pairs parsed from the POST, with the
\* date a Monday-Friday date of W and the project active with u a member; it
\* deletes no row, leaves every other row of u and every row of other users
\* as it was, and changes no leave request and no entitlement.
C28_FrameOfSave ==
    [][(/\ lastOp'.op = "weekly_timesheet"
        /\ lastOp'.req.action \in {"save", "submit"}
        /\ Succeeded(lastOp'))
        => LET u == lastOp'.actor
               allowed == {p \in Pairs(lastOp'.req) :
                            /\ p.dt \in WeekDays(lastOp'.req.week_num)
                            /\ Weekday(p.dt) < 5
                            /\ ProjectActive(p.pid)
                            /\ u \in ProjectMembers(p.pid)}
               Posted(e) ==
                    e.user = u /\ \E p \in allowed : p.pid = e.project /\ p.dt = e.date
           IN  /\ \A e \in entries : RowsOf(entries', e.user, e.project, e.date) # {}
               /\ \A e \in entries : ~Posted(e) => e \in entries'
               /\ \A x \in entries' \ entries : Posted(x)
               /\ requests' = requests
               /\ entitlements' = entitlements]_vars

\* a save of week one with an empty cell over alice's stored row of project 2
\* and two hours for project 1 on Tuesday: that row is new, the three rows
\* stored before are as they were
C28_Witness ==
    /\ lastOp.op = "weekly_timesheet"
    /\ lastOp.req.action = "save"
    /\ Succeeded(lastOp)
    /\ lastOp.req.cells = PostCells(<<2>>, <<0>>, "") \o PostCells(<<1>>, <<1>>, "2")
    /\ entries =
        {[user |-> "bob", project |-> 2, date |-> 0, hours |-> 750, submitted |-> TRUE],
         [user |-> "alice", project |-> 2, date |-> 0, hours |-> 200, submitted |-> FALSE],
         [user |-> "alice", project |-> 1, date |-> 7, hours |-> 200, submitted |-> FALSE],
         [user |-> "alice", project |-> 1, date |-> 1, hours |-> 200, submitted |-> FALSE]}
    /\ requests = <<PendingTuesday>>

\* C29: the submitted flag is monotonic: a row that is submitted stays
\* submitted through every later save and submit of the user.
C29_SubmittedIsFinal ==
    [][\A e \in entries :
          e.submitted
            => \A x \in RowsOf(entries', e.user, e.project, e.date) : x.submitted]_vars

\* ---- ISO weeks as the claims speak of them
\* the years with 53 ISO weeks among 2024..2028 are 2026 alone
IsoWeeks(year) == IF year = 2026 THEN 53 ELSE 52

\* the Monday of an ISO week in day numbers from Monday 2025-12-29
IsoMonday(year, week) ==
    7 * (week - 1)
    + (CASE year = 2025 -> 0 - 364 [] year = 2026 -> 0 [] year = 2027 -> 371
         [] OTHER -> 735)

ValidIsoWeek(year, week) == week \in 1..IsoWeeks(year)

\* C30: for every displayed ISO week the links to the week before and the
\* week after name valid ISO weeks whose Mondays are 7 days before and 7 days
\* after the displayed Monday, week 1 and the last week of a year included.
C30_WeekLinks ==
    [][(lastOp'.op = "weekly_with_date" /\ lastOp'.code = 200)
        => LET shown == IsoMonday(lastOp'.req.year, lastOp'.req.week_num)
               nav == lastOp'.nav
           IN  /\ ValidIsoWeek(nav.prev_year, nav.prev_week)
               /\ IsoMonday(nav.prev_year, nav.prev_week) = shown - 7
               /\ ValidIsoWeek(nav.next_year, nav.next_week)
               /\ IsoMonday(nav.next_year, nav.next_week) = shown + 7]_vars
====
